---- MODULE Spec2Model ----
(***************************************************************************)
(* Model of crypt.py: the per-path buffered file state (File), the table   *)
(* of open files (FilesCache) and the content operations of the FUSE       *)
(* adapter (Crypt) over a backing directory.                               *)
(*                                                                         *)
(* Byte strings (bytes, bytearray) are sequences over Byte.  Python        *)
(* indices are 0-based and slices are half-open; sequences here are        *)
(* 1-based, so the slice b[lo:hi] is SubSeq(b, lo + 1, hi).                *)
(***************************************************************************)
EXTENDS Integers, Sequences, FiniteSets, TLC

\* ---------------------------------------------------------------- bounds
MaxLen == 2        \* longest buffer the environment lets a file reach
MaxData == 2       \* longest byte string passed to one write
MaxHandles == 2    \* create/open calls made in one run (caps next_fh)

Byte == {0, 1}
Paths == {"/a"}

Max(a, b) == IF a > b THEN a ELSE b

BytesUpTo(n) == UNION {[1..k -> Byte] : k \in 0..n}
Zeros(n) == [i \in 1..Max(n, 0) |-> 0]

\* ------------------------------------------------------- Python slices
\* slice.indices(): a negative bound counts from the end, then both bounds
\* are clipped to [0, len]
PyIndex(i, len) ==
    LET j == IF i < 0 THEN i + len ELSE i
    IN  IF j < 0 THEN 0 ELSE IF j > len THEN len ELSE j

\* b[start:stop]
Slice(b, start, stop) ==
    LET lo == PyIndex(start, Len(b))
        hi == PyIndex(stop, Len(b))
    IN  IF hi <= lo THEN <<>> ELSE SubSeq(b, lo + 1, hi)

\* b[start:stop] = data, on a bytearray: the slice is replaced by data,
\* whatever their lengths; an empty or inverted slice is an insertion at start
SliceAssign(b, start, stop, data) ==
    LET lo == PyIndex(start, Len(b))
        h0 == PyIndex(stop, Len(b))
        hi == IF h0 < lo THEN lo ELSE h0
    IN  SubSeq(b, 1, lo) \o data \o SubSeq(b, hi + 1, Len(b))

\* ---------------------------------------------------------------- codec
_encrypt(data) == [i \in 1..Len(data) |-> data[i]]

\* the commented-out reversing codec, enabled in _decrypt alone
_decrypt_reversed(data) == [i \in 1..Len(data) |-> data[Len(data) + 1 - i]]

_decrypt(data) == [i \in 1..Len(data) |-> data[i]]

\* ----------------------------------------------------------------- File
\* An optional argument: None is <<>>, a value x is <<x>>.
None == <<>>
Some(x) == <<x>>

File_init(file_handle, encrypted_data) ==
    [file_handle  |-> file_handle,
     data         |-> IF encrypted_data = None THEN <<>>
                      ELSE _decrypt(encrypted_data[1]),
     open_handles |-> 1,
     dirty        |-> FALSE]

\* File.write copying data[:-1] into the slice it sizes one byte short
File_write_dropLast(f, data, offset) ==
    LET new_data_len == Len(data)
        missing_len  == (offset + new_data_len) - Len(f.data)
        extended     == IF missing_len > 0
                        THEN f.data \o Zeros(missing_len - 1)
                        ELSE f.data
    IN  [f EXCEPT !.dirty = TRUE,
                  !.data  = SliceAssign(extended, offset,
                                        offset + new_data_len - 1,
                                        SubSeq(data, 1, new_data_len - 1))]

File_write(f, data, offset) ==
    LET new_data_len == Len(data)
        missing_len  == (offset + new_data_len) - Len(f.data)
        extended     == IF missing_len > 0
                        THEN f.data \o Zeros(missing_len - 1)
                        ELSE f.data
    IN  [f EXCEPT !.dirty = TRUE,
                  !.data  = SliceAssign(extended, offset,
                                        offset + new_data_len - 1, data)]

\* File.truncate keeping one byte too many when it shrinks
File_truncate_keepOneMore(f, length) ==
    LET cur_len == Len(f.data)
    IN  IF cur_len = length THEN f
        ELSE IF length < cur_len
        THEN [f EXCEPT !.dirty = TRUE,
                       !.data = Slice(f.data, 0, length + 1)]
        ELSE [f EXCEPT !.dirty = TRUE,
                       !.data = f.data \o Zeros((length - cur_len) - 1)]

\* File.truncate setting dirty before it compares the lengths
File_truncate_dirtyFirst(f, length) ==
    LET cur_len == Len(f.data)
    IN  IF cur_len = length THEN [f EXCEPT !.dirty = TRUE]
        ELSE IF length < cur_len
        THEN [f EXCEPT !.dirty = TRUE, !.data = Slice(f.data, 0, length)]
        ELSE [f EXCEPT !.dirty = TRUE,
                       !.data = f.data \o Zeros((length - cur_len) - 1)]

File_truncate(f, length) ==
    LET cur_len == Len(f.data)
    IN  IF cur_len = length THEN f
        ELSE IF length < cur_len
        THEN [f EXCEPT !.dirty = TRUE, !.data = Slice(f.data, 0, length)]
        ELSE [f EXCEPT !.dirty = TRUE,
                       !.data = f.data \o Zeros((length - cur_len) - 1)]

\* ----------------------------------------------------------- FilesCache
\* self.files is a dict: a function whose domain is the set of its keys
EmptyDict == [q \in {} |-> <<>>]
DictSet(d, k, v) == [q \in DOMAIN d \cup {k} |-> IF q = k THEN v ELSE d[q]]
DictDel(d, k) == [q \in DOMAIN d \ {k} |-> d[q]]

FilesCache_create(fs, nfh, path) == DictSet(fs, path, File_init(nfh, None))

\* the assertion `path is not self.files` compares a str with the dict
\* object by identity: it always passes
FilesCache_open(fs, nfh, path, data) ==
    DictSet(fs, path, File_init(nfh, Some(data)))

FilesCache_write(fs, path, data, offset) ==
    DictSet(fs, path, File_write(fs[path], data, offset))

FilesCache_truncate(fs, path, length) ==
    DictSet(fs, path, File_truncate(fs[path], length))

FilesCache_get_ciphertext(fs, path) == _encrypt(fs[path].data)

FilesCache_get_plaintext(fs, path) == fs[path].data

\* FilesCache.release deleting the entry only below zero
FilesCache_release_belowZero(fs, path) ==
    LET f == [fs[path] EXCEPT !.open_handles = @ - 1]
    IN  IF f.open_handles < 0 THEN DictDel(fs, path)
        ELSE DictSet(fs, path, f)

\* FilesCache.release emptying the table (self.files = {}) instead of
\* deleting the one entry
FilesCache_release_clearTable(fs, path) ==
    LET f == [fs[path] EXCEPT !.open_handles = @ - 1]
    IN  IF f.open_handles <= 0 THEN EmptyDict
        ELSE DictSet(fs, path, f)

FilesCache_release(fs, path) ==
    LET f == [fs[path] EXCEPT !.open_handles = @ - 1]
    IN  IF f.open_handles <= 0 THEN DictDel(fs, path)
        ELSE DictSet(fs, path, f)

\* ---------------------------------------------------------------- state
VARIABLES
    files,      \* FilesCache.files: path -> File, for the paths in the table
    next_fh,    \* FilesCache.next_fh
    disk,       \* the backing directory: path -> bytes, for the files in it
    issued,     \* per path, handles returned to the caller and not released
    last,       \* the last call: operation, path, how it ended, its value
    running     \* the calls of write that have begun and not returned

vars == <<files, next_fh, disk, issued, last, running>>

\* The record of a call: its operation, path and other arguments, how it
\* ended (it returned an int, a bytes or None, or it raised) with the value
\* returned, and the table's File of the path when the call was made
\* (<<>> if there was none, else <<File>>).
Call(op, path, args, kind, val) ==
    [op |-> op, path |-> path, args |-> args, kind |-> kind, val |-> val,
     was |-> IF path \in DOMAIN files THEN <<files[path]>> ELSE <<>>]

Init ==
    /\ files = EmptyDict
    /\ next_fh = 0
    /\ disk \in UNION {[D -> BytesUpTo(MaxLen)] : D \in SUBSET Paths}
    /\ issued = [p \in Paths |-> 0]
    /\ last = Call("init", "", <<>>, "None", <<>>)
    /\ running = {}

\* ---------------------------------------------------------------- Crypt
\* create numbering its handle by the size of the table
Crypt_create_byTableSize(path) ==
    /\ disk' = IF path \in DOMAIN disk THEN disk ELSE DictSet(disk, path, <<>>)
    /\ files' = FilesCache_create(files, Cardinality(DOMAIN files), path)
    /\ next_fh' = next_fh + 1
    /\ issued' = [issued EXCEPT ![path] = @ + 1]
    /\ last' = Call("create", path, <<>>, "int", <<Cardinality(DOMAIN files)>>)

Crypt_create(path) ==
    /\ disk' = IF path \in DOMAIN disk THEN disk ELSE DictSet(disk, path, <<>>)
    /\ files' = FilesCache_create(files, next_fh, path)
    /\ next_fh' = next_fh + 1
    /\ issued' = [issued EXCEPT ![path] = @ + 1]
    /\ last' = Call("create", path, <<>>, "int", <<next_fh>>)

Crypt_open(path) ==
    IF path \notin DOMAIN disk
    THEN /\ last' = Call("open", path, <<>>, "FileNotFoundError", <<>>)
         /\ UNCHANGED <<files, next_fh, disk, issued>>
    ELSE /\ files' = FilesCache_open(files, next_fh, path, disk[path])
         /\ next_fh' = next_fh + 1
         /\ issued' = [issued EXCEPT ![path] = @ + 1]
         /\ last' = Call("open", path, <<>>, "int", <<next_fh>>)
         /\ UNCHANGED disk

\* The bare `except:` catches the KeyError of get_plaintext; the method then
\* falls off its end and returns None.
\* read raising on a range that runs past the end of the buffer (the
\* IndexError is swallowed by the bare `except:`) instead of clipping it
Crypt_read_result_strict(fs, path, length, offset) ==
    IF path \notin DOMAIN fs \/ offset + length > Len(fs[path].data)
    THEN [kind |-> "None", val |-> <<>>]
    ELSE [kind |-> "bytes",
          val  |-> Slice(FilesCache_get_plaintext(fs, path),
                         offset, offset + length)]

Crypt_read_result(fs, path, length, offset) ==
    IF path \notin DOMAIN fs
    THEN [kind |-> "None", val |-> <<>>]
    ELSE [kind |-> "bytes",
          val  |-> Slice(FilesCache_get_plaintext(fs, path),
                         offset, offset + length)]

Crypt_read(path, length, offset) ==
    LET r == Crypt_read_result(files, path, length, offset)
    IN  /\ last' = Call("read", path, <<length, offset>>, r.kind, r.val)
        /\ UNCHANGED <<files, next_fh, disk, issued>>

Crypt_write(path, buf, offset) ==
    IF path \notin DOMAIN files
    THEN /\ last' = Call("write", path, <<buf, offset>>, "KeyError", <<>>)
         /\ UNCHANGED <<files, next_fh, disk, issued>>
    ELSE /\ files' = FilesCache_write(files, path, buf, offset)
         /\ last' = Call("write", path, <<buf, offset>>, "int", <<Len(buf)>>)
         /\ UNCHANGED <<next_fh, disk, issued>>

Crypt_truncate(path, length) ==
    IF path \notin DOMAIN files
    THEN /\ last' = Call("truncate", path, <<length>>, "KeyError", <<>>)
         /\ UNCHANGED <<files, next_fh, disk, issued>>
    ELSE /\ files' = FilesCache_truncate(files, path, length)
         /\ last' = Call("truncate", path, <<length>>, "None", <<>>)
         /\ UNCHANGED <<next_fh, disk, issued>>

\* _do_flush opening the backing file "r+b": nothing is cut off, the
\* ciphertext overwrites the start of the old content
Crypt_do_flush_overwrite(fs, dk, path) ==
    LET old    == IF path \in DOMAIN dk THEN dk[path] ELSE <<>>
        opened == DictSet(dk, path, old)
        Over(w) == w \o SubSeq(old, Len(w) + 1, Len(old))
    IN  {[disk |-> dk, kind |-> "OSError"]}
        \cup
        (IF path \notin DOMAIN fs
         THEN {[disk |-> opened, kind |-> "KeyError"]}
         ELSE LET ct == FilesCache_get_ciphertext(fs, path)
              IN  {[disk |-> DictSet(dk, path, Over(ct)), kind |-> "None"]}
                  \cup
                  {[disk |-> DictSet(dk, path, Over(SubSeq(ct, 1, k))),
                    kind |-> "OSError"] : k \in 0..Len(ct)})

\* _do_flush opening the backing file "ab": the ciphertext is appended
Crypt_do_flush_append(fs, dk, path) ==
    LET old    == IF path \in DOMAIN dk THEN dk[path] ELSE <<>>
        opened == DictSet(dk, path, old)
    IN  {[disk |-> dk, kind |-> "OSError"]}
        \cup
        (IF path \notin DOMAIN fs
         THEN {[disk |-> opened, kind |-> "KeyError"]}
         ELSE LET ct == FilesCache_get_ciphertext(fs, path)
              IN  {[disk |-> DictSet(dk, path, old \o ct), kind |-> "None"]}
                  \cup
                  {[disk |-> DictSet(dk, path, old \o SubSeq(ct, 1, k)),
                    kind |-> "OSError"] : k \in 0..Len(ct)})

\* The outcomes of _do_flush(path): the backing directory afterwards and how
\* the call ended.  The host may refuse open(full_path, "wb") (OSError, the
\* directory untouched); otherwise the open creates or empties the backing
\* file before get_ciphertext looks the path up (KeyError if it is not in
\* the table), and the write either stores the ciphertext or fails having
\* stored a prefix of it (OSError).
Crypt_do_flush(fs, dk, path) ==
    LET opened == DictSet(dk, path, <<>>)
    IN  {[disk |-> dk, kind |-> "OSError"]}
        \cup
        (IF path \notin DOMAIN fs
         THEN {[disk |-> opened, kind |-> "KeyError"]}
         ELSE LET ct == FilesCache_get_ciphertext(fs, path)
              IN  {[disk |-> DictSet(dk, path, ct), kind |-> "None"]}
                  \cup
                  {[disk |-> DictSet(dk, path, SubSeq(ct, 1, k)),
                    kind |-> "OSError"] : k \in 0..Len(ct)})

Crypt_flush(path) ==
    \E r \in Crypt_do_flush(files, disk, path) :
        /\ disk' = r.disk
        /\ last' = Call("flush", path, <<>>, r.kind, <<>>)
        /\ UNCHANGED <<files, next_fh, issued>>

Crypt_fsync(path) ==
    \E r \in Crypt_do_flush(files, disk, path) :
        /\ disk' = r.disk
        /\ last' = Call("fsync", path, <<>>, r.kind, <<>>)
        /\ UNCHANGED <<files, next_fh, issued>>

\* release dropping the table entry in a `finally:`, flushed or not
Crypt_release_finally(path) ==
    \E r \in Crypt_do_flush(files, disk, path) :
        /\ disk' = r.disk
        /\ files' = IF path \in DOMAIN files
                    THEN FilesCache_release(files, path) ELSE files
        /\ last' = Call("release", path, <<>>, r.kind, <<>>)
        /\ issued' = [issued EXCEPT ![path] = Max(@ - 1, 0)]
        /\ UNCHANGED next_fh

\* The caller gives its handle up whether or not the call raises.
Crypt_release(path) ==
    \E r \in Crypt_do_flush(files, disk, path) :
        /\ disk' = r.disk
        /\ files' = IF r.kind = "None" THEN FilesCache_release(files, path)
                    ELSE files
        /\ last' = Call("release", path, <<>>, r.kind, <<>>)
        /\ issued' = [issued EXCEPT ![path] = Max(@ - 1, 0)]
        /\ UNCHANGED next_fh

Crypt_unlink(path) ==
    IF path \notin DOMAIN disk
    THEN /\ last' = Call("unlink", path, <<>>, "FileNotFoundError", <<>>)
         /\ UNCHANGED <<files, next_fh, disk, issued>>
    ELSE /\ disk' = DictDel(disk, path)
         /\ last' = Call("unlink", path, <<>>, "None", <<>>)
         /\ UNCHANGED <<files, next_fh, issued>>

\* ----------------------------------------------------------- environment
\* A write the environment issues keeps the buffer within maxlen.
WriteFits(path, buf, offset, maxlen) ==
    path \in DOMAIN files =>
        Len(File_write(files[path], buf, offset).data) <= maxlen

\* One call of a content operation other than write (or of unlink) on
\* path, served to its end, with buffers up to maxlen.
Others(path, maxlen) ==
    \/ next_fh < MaxHandles /\ Crypt_create(path)
    \/ next_fh < MaxHandles /\ Crypt_open(path)
    \/ \E length \in 0..maxlen, offset \in 0..maxlen :
           Crypt_read(path, length, offset)
    \/ \E length \in 0..maxlen : Crypt_truncate(path, length)
    \/ Crypt_flush(path)
    \/ Crypt_fsync(path)
    \/ Crypt_release(path)
    \/ Crypt_unlink(path)

\* One call on path served to its end, written strings up to maxdata.
Handle(path, maxlen, maxdata) ==
    \/ Others(path, maxlen)
    \/ \E buf \in BytesUpTo(maxdata), offset \in 0..maxlen :
           /\ WriteFits(path, buf, offset, maxlen)
           /\ Crypt_write(path, buf, offset)

Next ==
    /\ UNCHANGED running
    /\ \E path \in Paths : Handle(path, MaxLen, MaxData)

Spec == Init /\ [][Next]_vars

\* ------------------------------------------------- write, line by line
\* The statements of a write as separate steps, and the dispatch of main:
\* FUSE(..., nothreads=True) reads the next request only when the handler
\* of the previous one has returned.
Dispatchable_threads == TRUE

Dispatchable == running = {}

\* The File a call of write holds: the one it looked up, if the table still
\* has it.
Held(w) ==
    w.path \in DOMAIN files /\ files[w.path].file_handle = w.was.file_handle

\* Crypt.write up to the first statement of File.write: the lookup (which
\* may raise KeyError) and self.dirty = True
Write_begin(path, buf, offset) ==
    IF path \notin DOMAIN files
    THEN /\ last' = Call("write", path, <<buf, offset>>, "KeyError", <<>>)
         /\ UNCHANGED <<files, next_fh, disk, issued, running>>
    ELSE /\ files' = DictSet(files, path, [files[path] EXCEPT !.dirty = TRUE])
         /\ running' = running \cup {[path |-> path, buf |-> buf,
                                       offset |-> offset, was |-> files[path],
                                       pc |-> "extend"]}
         /\ UNCHANGED <<next_fh, disk, issued, last>>

\* new_data_len, missing_len and the zero-extension
Write_extend(w) ==
    LET f == files[w.path]
        missing_len == (w.offset + Len(w.buf)) - Len(f.data)
    IN  /\ w.pc = "extend"
        /\ files' = IF Held(w) /\ missing_len > 0
                    THEN DictSet(files, w.path,
                           [f EXCEPT !.data = @ \o Zeros(missing_len - 1)])
                    ELSE files
        /\ running' = (running \ {w}) \cup {[w EXCEPT !.pc = "copy"]}
        /\ UNCHANGED <<next_fh, disk, issued, last>>

\* the slice assignment, and the return of Crypt.write
Write_copy(w) ==
    LET f == files[w.path]
    IN  /\ w.pc = "copy"
        /\ files' = IF Held(w)
                    THEN DictSet(files, w.path,
                           [f EXCEPT !.data = SliceAssign(@, w.offset,
                                        w.offset + Len(w.buf) - 1, w.buf)])
                    ELSE files
        /\ running' = running \ {w}
        /\ last' = [op |-> "write", path |-> w.path,
                    args |-> <<w.buf, w.offset>>, kind |-> "int",
                    val |-> <<Len(w.buf)>>, was |-> <<w.was>>]
        /\ UNCHANGED <<next_fh, disk, issued>>

StepNext ==
    \/ /\ Dispatchable
       /\ UNCHANGED running
       /\ \E path \in Paths : Others(path, MaxLen)
    \/ /\ Dispatchable
       /\ \E path \in Paths, buf \in BytesUpTo(MaxData), offset \in 0..MaxLen :
              /\ WriteFits(path, buf, offset, MaxLen)
              /\ Write_begin(path, buf, offset)
    \/ \E w \in running : Write_extend(w)
    \/ \E w \in running : Write_copy(w)

StepSpec == Init /\ [][StepNext]_vars

\* ------------------------------------------------------------ two paths
\* The same operations on two paths, with shorter buffers.
IsoLen == 0        \* longest buffer and written string on two paths
IsoPaths == {"/a", "/b"}

IsoInit ==
    /\ files = EmptyDict
    /\ next_fh = 0
    /\ disk \in UNION {[D -> BytesUpTo(IsoLen)] : D \in SUBSET IsoPaths}
    /\ issued = [p \in IsoPaths |-> 0]
    /\ last = Call("init", "", <<>>, "None", <<>>)
    /\ running = {}

IsoNext ==
    /\ UNCHANGED running
    /\ \E path \in IsoPaths : Handle(path, IsoLen, IsoLen)

IsoSpec == IsoInit /\ [][IsoNext]_vars
\* ======================================================================
\* Properties
\* ======================================================================
Returned(op, kind) == last.op = op /\ last.kind = kind
Flushed == last.op \in {"flush", "fsync"} /\ last.kind = "None"

\* C1. Write/read coherence: right after a write(p, d, o) that returned, a
\* read(p, len(d), o) returns exactly d, and every byte of the buffer at an
\* index from the old end of the buffer up to o (the gap) is zero.
C1_WriteReadCoherence ==
    Returned("write", "int") =>
        LET p == last.path
            d == last.args[1]
            o == last.args[2]
            old == last.was[1].data
        IN  /\ Crypt_read_result(files, p, Len(d), o)
                 = [kind |-> "bytes", val |-> d]
            /\ \A i \in Len(old)..(o - 1) :
                   i < Len(files[p].data) => files[p].data[i + 1] = 0

\* a write of one byte past the end of an empty buffer has left a gap
C1_Witness ==
    /\ Returned("write", "int")
    /\ last.args = << <<1>>, 1 >>
    /\ last.was = << [file_handle |-> 0, data |-> <<>>,
                      open_handles |-> 1, dirty |-> FALSE] >>
    /\ files["/a"].data = <<0, 1>>

\* C2. Grow-by-truncate: after truncate(p, L) with L greater than the
\* buffer's length n, the buffer has length L, starts with the n old bytes
\* and ends with L - n zero bytes.
C2_GrowByTruncate ==
    (Returned("truncate", "None") /\ last.args[1] > Len(last.was[1].data)) =>
        LET L == last.args[1]
            old == last.was[1].data
            new == files[last.path].data
        IN  /\ Len(new) = L
            /\ SubSeq(new, 1, Len(old)) = old
            /\ \A i \in (Len(old) + 1)..Len(new) : new[i] = 0

\* C3. Shrink-by-truncate: after truncate(p, L) with 0 <= L < n, the buffer
\* is the first L bytes of the old buffer, and dirty is true.
C3_ShrinkByTruncate ==
    (Returned("truncate", "None") /\ last.args[1] < Len(last.was[1].data)) =>
        LET L == last.args[1]
            old == last.was[1].data
            f == files[last.path]
        IN  /\ Len(f.data) = L
            /\ f.data = SubSeq(old, 1, L)
            /\ f.dirty = TRUE

\* a clean two-byte buffer has been cut to its first byte
C3_Witness ==
    /\ Returned("truncate", "None")
    /\ last.args = <<1>>
    /\ last.was[1].data = <<1, 0>>
    /\ last.was[1].dirty = FALSE
    /\ files["/a"].data = <<1>>

\* C4. Conflict on re-entrant create/open: a create(p) or open(p) made while
\* p has a File in the table fails with Conflict and leaves that File (its
\* buffer, dirty flag and open_handles) as it was.
C4_ConflictOnReentry ==
    (last.op \in {"create", "open"} /\ last.was # <<>>) =>
        /\ last.kind = "Conflict"
        /\ last.path \in DOMAIN files
        /\ files[last.path] = last.was[1]

\* C5. Handle refcounting: while the caller holds a handle of p that it has
\* not released (N opens, fewer than N releases), p's File is in the table.
C5_HandleRefcounting ==
    \A p \in Paths : issued[p] > 0 => p \in DOMAIN files

\* C6. Persisted content after flush: right after a flush or fsync of p that
\* returned, the backing file of p is exactly encrypt(buffer), with nothing
\* of the previous content after it, and decrypts to the buffer.
C6_PersistedAfterFlush ==
    Flushed =>
        /\ last.path \in DOMAIN disk
        /\ disk[last.path] = _encrypt(files[last.path].data)
        /\ _decrypt(disk[last.path]) = files[last.path].data

\* a flush has stored a one-byte buffer
C6_Witness ==
    /\ Returned("flush", "None")
    /\ files["/a"].data = <<1>>
    /\ files["/a"].dirty = TRUE
    /\ disk["/a"] = <<1>>

\* C7. Dirty tracking: create and open leave dirty false, a write leaves it
\* true, and a flush or fsync that returned leaves it false.
C7_DirtyTracking ==
    /\ (last.op \in {"create", "open"} /\ last.kind = "int")
           => files[last.path].dirty = FALSE
    /\ Returned("write", "int") => files[last.path].dirty = TRUE
    /\ Flushed => files[last.path].dirty = FALSE

\* C8. Release/reopen round trip: a release of the last handle of p, with
\* buffer b, leaves p out of the table and encrypt(b) in the backing file;
\* an open(p) made next gives a File with buffer b, dirty false and
\* open_handles 1.
C8_ReleaseReopen ==
    [][ (Returned("release", "None") /\ last.was[1].open_handles = 1) =>
            LET p == last.path
                b == last.was[1].data
            IN  /\ p \notin DOMAIN files
                /\ p \in DOMAIN disk /\ disk[p] = _encrypt(b)
                /\ (last'.op = "open" /\ last'.path = p /\ last'.kind = "int")
                       => /\ files'[p].data = b
                          /\ files'[p].dirty = FALSE
                          /\ files'[p].open_handles = 1 ]_vars

\* the file released with buffer <<0, 1>> has been opened again
C8_Witness ==
    /\ Returned("open", "int")
    /\ last.was = <<>>
    /\ next_fh = 2
    /\ issued["/a"] = 1
    /\ files["/a"].data = <<0, 1>>
    /\ disk["/a"] = <<0, 1>>

C10_NotFoundReported ==
    (last.op \in {"read", "write", "truncate", "flush", "fsync", "release"}
        /\ last.was = <<>>) =>
        /\ last.kind \in {"KeyError", "OSError"}
        /\ last.path \notin DOMAIN files

\* C11. Double release: a release of a path that is not in the table does
\* not end in the KeyError of the lookup and changes neither the table nor
\* the backing directory.
C11_DoubleReleaseNoOp ==
    [][ (last'.op = "release" /\ last'.was = <<>>) =>
            /\ last'.kind # "KeyError"
            /\ files' = files
            /\ disk' = disk ]_vars

\* C12. Write length and frame: after a write(p, d, o) on a buffer of length
\* n the buffer has length max(n, o + len(d)), and every byte at an index
\* below n outside [o, o + len(d)) is where and what it was.
C12_WriteLengthAndFrame ==
    Returned("write", "int") =>
        LET d == last.args[1]
            o == last.args[2]
            old == last.was[1].data
            new == files[last.path].data
        IN  /\ Len(new) = Max(Len(old), o + Len(d))
            /\ \A i \in 0..(Len(old) - 1) :
                   (i < o \/ i >= o + Len(d)) =>
                       (i < Len(new) /\ new[i + 1] = old[i + 1])

\* C13. Storage failure during flush: when the backing write of a flush, an
\* fsync or the flush of a release fails, the call raises OSError and the
\* File is what it was (still dirty if it was dirty, still in the table).
C13_StorageFailureKeepsState ==
    (last.op \in {"flush", "fsync", "release"} /\ last.kind = "OSError"
        /\ last.was # <<>>) =>
        /\ last.path \in DOMAIN files
        /\ files[last.path] = last.was[1]
        /\ last.was[1].dirty => files[last.path].dirty

\* the flush of a release failed having emptied the backing file: the dirty
\* File is still in the table
C13_Witness ==
    /\ Returned("release", "OSError")
    /\ last.was # <<>>
    /\ files["/a"].data = <<1>>
    /\ files["/a"].dirty = TRUE
    /\ disk = [q \in {"/a"} |-> <<>>]

\* C15. Table/refcount invariant: every File in the table has open_handles
\* of at least 1, and a release that takes open_handles to zero leaves the
\* path out of the table.
C15_TableRefcount ==
    /\ \A p \in DOMAIN files : files[p].open_handles >= 1
    /\ (Returned("release", "None") /\ last.was[1].open_handles <= 1)
           => last.path \notin DOMAIN files

\* the only handle of a File has been released: the path has left the table
C15_Witness ==
    /\ Returned("release", "None")
    /\ last.was # <<>>
    /\ last.was[1].open_handles = 1
    /\ "/a" \notin DOMAIN files

\* C16. Truncate to the current length: truncate(p, n) on a buffer of
\* length n leaves the buffer, dirty and open_handles as they were.
C16_TruncateSameLength ==
    (Returned("truncate", "None") /\ last.args[1] = Len(last.was[1].data)) =>
        /\ last.path \in DOMAIN files
        /\ files[last.path] = last.was[1]

\* a clean one-byte buffer has been truncated to one byte and is still clean
C16_Witness ==
    /\ Returned("truncate", "None")
    /\ last.args = <<1>>
    /\ last.was # <<>>
    /\ last.was[1].data = <<1>>
    /\ files["/a"].data = <<1>>
    /\ files["/a"].dirty = FALSE

\* C17. Read is clipped and pure: a read(p, length, offset) of an open path
\* with buffer b returns the bytes of b at the indices from offset up to
\* min(offset + length, len(b)), none if there are none, and changes
\* neither the table, the backing directory nor the handle counter.
C17_ReadClippedAndPure ==
    [][ (last'.op = "read" /\ last'.was # <<>>) =>
            LET length == last'.args[1]
                offset == last'.args[2]
                b == files[last'.path].data
                end == IF offset + length < Len(b) THEN offset + length
                       ELSE Len(b)
            IN  /\ last'.kind = "bytes"
                /\ last'.val = [i \in 1..Max(end - offset, 0) |-> b[offset + i]]
                /\ UNCHANGED <<files, disk, next_fh, issued>> ]_vars

\* a read of two bytes from offset 1 of a two-byte buffer returned one byte
C17_Witness ==
    /\ Returned("read", "bytes")
    /\ last.args = <<2, 1>>
    /\ files["/a"].data = <<0, 1>>
    /\ last.val = <<1>>

\* C18. Fresh handle ids: the handle counter never goes back, every File in
\* the table has an id below it, and a create or open returns an id that is
\* at least the counter before the call and below the counter after it; so
\* each id returned is greater than all returned before.
C18_FreshHandleIds ==
    [][ /\ next_fh' >= next_fh
        /\ \A p \in DOMAIN files : files[p].file_handle < next_fh
        /\ (last'.op \in {"create", "open"} /\ last'.kind = "int") =>
               /\ last'.val[1] >= next_fh
               /\ last'.val[1] < next_fh'
               /\ files'[last'.path].file_handle = last'.val[1] ]_vars

\* handle 0 was released and the path created anew under handle 1
C18_Witness ==
    /\ Returned("create", "int")
    /\ last.was = <<>>
    /\ last.val = <<1>>
    /\ issued["/a"] = 1
    /\ files["/a"].file_handle = 1

====
